---------------------------- MODULE Spec2Model ----------------------------
(***************************************************************************)
(* Conservation-law / conserved-moiety detection of AMICI                  *)
(* (python/amici/conserved_moieties.py): qsort, kernel, fill,              *)
(* LinearDependence, MonteCarlo and Reduce, and the driver loop of         *)
(* python/tests/test_conserved_moieties.py.                                *)
(*                                                                         *)
(* Python lists of fixed size are functions on 0..n-1 (the source's        *)
(* indices), lists that grow by append are sequences.  Python numbers      *)
(* that come out of a true division are exact rationals <<n, d>>, d > 0,   *)
(* in lowest terms; None is NoneVal.  A parameter that has the name of a   *)
(* variable of the model is written with a trailing underscore.            *)
(***************************************************************************)
EXTENDS Integers, Sequences, FiniteSets, TLC

VARIABLES
  pc,                            \* position of the running program
  stoichiometricMatrixAsList,    \* input: flat matrix, reaction-major
  numberOfMetabolites,           \* input: N
  numberOfReactions,             \* input: M
  kernelDim, matched, intKernelDim, intmatched, NSolutions, NSolutions2,
  kn,                            \* locals of the running kernel call
  graph,                         \* [J, J2, fields] returned by fill
  mc,                            \* locals of the running MonteCarlo call
  rd,                            \* locals of the running Reduce call
  qs,                            \* arguments and result of a qsort call
  hist,                          \* values on entry of the running call
  drv,                           \* locals of the driver: timer, counter, finish
  ld,                            \* locals of the running LinearDependence call
  rx                             \* locals of the running Relaxation call

vars == <<pc, stoichiometricMatrixAsList, numberOfMetabolites,
          numberOfReactions, kernelDim, matched, intKernelDim, intmatched,
          NSolutions, NSolutions2, kn, graph, mc, rd, qs, hist, drv, ld, rx>>

-----------------------------------------------------------------------------
(* Bounds of the model *)

MaxLen == 3        \* qsort: longest index array
MaxKey == 1        \* qsort: largest finite pivot key
MaxEntries == 6    \* kernel: most entries N * M of an input matrix
MaxSpecies == 3    \* driver: most metabolites N of a one-reaction network
MaxCalls == 2      \* driver: most calls of MonteCarlo
MaxIter == 1       \* MonteCarlo: maxIter, 10 * maxIter restarts at most
CoolDen == 1       \* MonteCarlo: coolrate = 1 / CoolDen
MaxWeight == 1     \* Reduce: largest coefficient of an input moiety
MaxMalformed == 3  \* kernel: largest N, M and length of a malformed input
MaxRelax == 2      \* Relaxation: largest number of species and of reactions

-----------------------------------------------------------------------------
(* Program constants *)

MAX == 1000000000        \* MAX = 1e9
MINDEN == 1000000000     \* MIN = 1e-9 = 1 / MINDEN
NoneVal == -1            \* None in a freshly allocated list
initT == 1                \* default of the parameter initT
Idle == [none |-> TRUE]  \* locals of a function that is not running

-----------------------------------------------------------------------------
(* Loops and exact arithmetic *)

\* for i in range(a, n): st = Body(st, i)
For(a, n, st, Body(_, _)) ==
  LET RECURSIVE go(_, _)
      go(i, s) == IF i >= n THEN s ELSE go(i + 1, Body(s, i))
  IN go(a, st)

Range(n) == 0 .. (n - 1)

AbsInt(a) == IF a < 0 THEN -a ELSE a

RECURSIVE GCD(_, _)
GCD(a, b) == IF b = 0 THEN a ELSE GCD(b, a % b)

\* the number n/d in lowest terms
Rat(n, d) ==
  LET g == GCD(AbsInt(n), AbsInt(d))
      s == IF d < 0 THEN -1 ELSE 1
  IN <<(s * n) \div g, (s * d) \div g>>

RInt(a) == <<a, 1>>
RAdd(x, y) == Rat(x[1] * y[2] + y[1] * x[2], x[2] * y[2])
RSub(x, y) == Rat(x[1] * y[2] - y[1] * x[2], x[2] * y[2])
RMul(x, y) == Rat(x[1] * y[1], x[2] * y[2])
RDiv(x, y) == Rat(x[1] * y[2], x[2] * y[1])
RAbs(x) == <<AbsInt(x[1]), x[2]>>
\* x < y; an integer operand is compared through the floor or the ceiling
\* of the other one, which keeps 1e8 and 1e9 within 32 bits
RLt(x, y) ==
  IF y[2] = 1 THEN (x[1] \div x[2]) < y[1]
  ELSE IF x[2] = 1 THEN x[1] < -((-y[1]) \div y[2])
  ELSE x[1] * y[2] < y[1] * x[2]
RZero == <<0, 1>>

\* x > MIN, x < MIN and x < -MIN for MIN = 1/MINDEN, without leaving 32 bits
GtMIN(x) == x[1] > x[2] \div MINDEN
LtMIN(x) == x[1] < (x[2] + MINDEN - 1) \div MINDEN
LtNegMIN(x) == (-x[1]) > x[2] \div MINDEN

\* rank of the dense rational matrix A with nr rows and nc columns, by
\* Gauss-Jordan elimination column by column
DenseRank(A, nr, nc) ==
  For(0, nc, [A |-> A, rk |-> 0],
      LAMBDA s, c :
        IF \E p \in s.rk .. (nr - 1) : s.A[p][c] # RZero
        THEN LET p == CHOOSE q \in s.rk .. (nr - 1) : s.A[q][c] # RZero
                 prow == s.A[p]
                 B == [s.A EXCEPT ![p] = s.A[s.rk], ![s.rk] = prow]
             IN [A |-> [q \in Range(nr) |->
                          IF q = s.rk THEN prow
                          ELSE [d \in Range(nc) |->
                                  RSub(B[q][d],
                                       RMul(RDiv(B[q][c], prow[c]), prow[d]))]],
                 rk |-> s.rk + 1]
        ELSE s).rk

-----------------------------------------------------------------------------
(* qsort(k, km, orders, pivots): lines 13-46 *)

\* lines 28-40: one partition of orders[km..k) around the middle element
qsPartitionDesc(k, km, orders, pivots) ==
  LET pivot == km + ((k - km) \div 2)
      st == For(km, k,
                [neworders |-> [x \in Range(k - km) |-> NoneVal],
                 l |-> 0, p |-> k - km - 1],
                LAMBDA s, i :
                  IF i = pivot THEN s
                  ELSE IF pivots[orders[i]] > pivots[orders[pivot]]
                       THEN [s EXCEPT !.neworders[s.l] = orders[i],
                                      !.l = s.l + 1]
                       ELSE [s EXCEPT !.neworders[s.p] = orders[i],
                                      !.p = s.p - 1])
  IN [st EXCEPT !.neworders[st.p] = orders[pivot]]

qsPartition(k, km, orders, pivots) ==
  LET pivot == km + ((k - km) \div 2)
      st == For(km, k,
                [neworders |-> [x \in Range(k - km) |-> NoneVal],
                 l |-> 0, p |-> k - km - 1],
                LAMBDA s, i :
                  IF i = pivot THEN s
                  ELSE IF pivots[orders[i]] < pivots[orders[pivot]]
                       THEN [s EXCEPT !.neworders[s.l] = orders[i],
                                      !.l = s.l + 1]
                       ELSE [s EXCEPT !.neworders[s.p] = orders[i],
                                      !.p = s.p - 1])
  IN [st EXCEPT !.neworders[st.p] = orders[pivot]]

\* the value of orders when qsort returns (pivots is only read)
RECURSIVE qsort(_, _, _, _)
qsort(k, km, orders, pivots) ==
  IF k - km >= 1
  THEN LET part == qsPartition(k, km, orders, pivots)
           copied == [i \in DOMAIN orders |->
                        IF km <= i /\ i < k THEN part.neworders[i - km]
                                            ELSE orders[i]]
           centre == part.p + km
       IN qsort(centre, km, qsort(k, centre + 1, copied, pivots), pivots)
  ELSE orders

-----------------------------------------------------------------------------
(* kernel(stoichiometricMatrixAsList, numberOfMetabolites,                 *)
(*        numberOfReactions): lines 49-211                                 *)

EmptyRows(n) == [i \in Range(n) |-> <<>>]

\* lines 72-90: one sparse row per metabolite (reaction index, coefficient),
\* then the bookkeeping entry (M + i, 1)
kernelParse(S, N, M) ==
  LET st == For(0, Len(S),
                [matrix |-> EmptyRows(N), matrix2 |-> EmptyRows(N),
                 il |-> 0, jl |-> 0],
                LAMBDA s, t :
                  LET val == S[t + 1]
                      s1 == IF val # 0
                            THEN [s EXCEPT
                                    !.matrix[s.jl] = Append(@, s.il),
                                    !.matrix2[s.jl] = Append(@, RInt(val))]
                            ELSE s
                  IN IF s.jl + 1 = N
                     THEN [s1 EXCEPT !.jl = 0, !.il = s.il + 1]
                     ELSE [s1 EXCEPT !.jl = s.jl + 1])
  IN [matrix |-> [i \in Range(N) |-> Append(st.matrix[i], M + i)],
      matrix2 |-> [i \in Range(N) |-> Append(st.matrix2[i], RInt(1))]]

\* lines 94, 144-147 with the last column of the row in place of the first
PivotOfLast(row) == IF Len(row) > 0 THEN row[Len(row)] ELSE MAX

\* lines 94, 144-147: first column of a row, MAX for an empty row
PivotOf(row) == IF Len(row) > 0 THEN row[1] ELSE MAX

\* lines 101-107 (and 109-115): smallest |first / other| over a row,
\* init when the row has a single entry
minRatio(row2, init) ==
  IF Len(row2) > 1
  THEN For(0, Len(row2), init,
           LAMBDA m, i :
             LET r == RAbs(RDiv(row2[1], row2[i + 1]))
             IN IF RLt(r, m) THEN r ELSE m)
  ELSE init

\* lines 98-120: among adjacent rows with the same pivot, swap when
\* min2 > min1
pivotSwaps(n, orders, pivots, matrix2, init) ==
  For(0, n - 1, orders,
      LAMBDA o, j :
        IF pivots[o[j + 1]] = pivots[o[j]] /\ pivots[o[j]] # MAX
        THEN IF RLt(minRatio(matrix2[o[j]], init),
                    minRatio(matrix2[o[j + 1]], init))
             THEN [o EXCEPT ![j + 1] = o[j], ![j] = o[j + 1]]
             ELSE o
        ELSE o)

\* lines 128-134 with += in place of -= on line 134
rowCombineAdd(matrix, matrix2, k1, k2, width) ==
  LET g == RDiv(matrix2[k2][1], matrix2[k1][1])
      c1 == For(1, Len(matrix[k1]), [i \in Range(width) |-> RZero],
                LAMBDA c, i :
                  [c EXCEPT ![matrix[k1][i + 1]] = RMul(matrix2[k1][i + 1], g)])
  IN For(1, Len(matrix[k2]), c1,
         LAMBDA c, i :
           [c EXCEPT ![matrix[k2][i + 1]] = RAdd(@, matrix2[k2][i + 1])])

\* lines 128-134 (the same statements are lines 343-350): the dense row
\* colonna = g * row k1 - row k2 without the two pivot entries
rowCombine(matrix, matrix2, k1, k2, width) ==
  LET g == RDiv(matrix2[k2][1], matrix2[k1][1])
      c1 == For(1, Len(matrix[k1]), [i \in Range(width) |-> RZero],
                LAMBDA c, i :
                  [c EXCEPT ![matrix[k1][i + 1]] = RMul(matrix2[k1][i + 1], g)])
  IN For(1, Len(matrix[k2]), c1,
         LAMBDA c, i :
           [c EXCEPT ![matrix[k2][i + 1]] = RSub(@, matrix2[k2][i + 1])])

\* lines 136-141 (and 352-357, 817-822): the entries of colonna with
\* |entry| > MIN, as a sparse row
sparseRow(colonna, width) ==
  For(0, width, [cols |-> <<>>, vals |-> <<>>],
      LAMBDA s, i :
        IF GtMIN(RAbs(colonna[i]))
        THEN [cols |-> Append(s.cols, i), vals |-> Append(s.vals, colonna[i])]
        ELSE s)

\* lines 123-147 (kernel: jEnd = N - 1, width = N + M) and lines 338-362
\* (LinearDependence: jEnd = K - 2, width = N): one sweep over adjacent rows,
\* replacing the second of two rows with the same pivot
eliminateSweep(st, jEnd, width) ==
  For(0, jEnd, [st EXCEPT !.ok = 1],
      LAMBDA s, j :
        IF /\ s.pivots[s.orders[j + 1]] = s.pivots[s.orders[j]]
           /\ s.pivots[s.orders[j]] # MAX
        THEN LET k1 == s.orders[j + 1]
                 k2 == s.orders[j]
                 row == sparseRow(rowCombine(s.matrix, s.matrix2, k1, k2,
                                             width), width)
             IN [s EXCEPT !.matrix[k1] = row.cols,
                          !.matrix2[k1] = row.vals,
                          !.ok = 0,
                          !.pivots[k1] = PivotOf(row.cols)]
        ELSE s)

\* lines 123-147: for j in range(N - 1), rows of N + M columns
kernelSweep(st, N, M) == eliminateSweep(st, N - 1, N + M)

\* lines 97-147: one iteration of "while ok == 0"
kernelPass(st, N, M) ==
  LET sorted == qsort(N, 0, st.orders, st.pivots)
      swapped == pivotSwaps(N, sorted, st.pivots, st.matrix2,
                            RInt(100000000))
  IN kernelSweep([st EXCEPT !.orders = swapped], N, M)

\* lines 65-94: the locals of kernel when it enters "while ok == 0"
kernelEnter(S, N, M) ==
  LET parsed == kernelParse(S, N, M)
  IN [matrix |-> parsed.matrix, matrix2 |-> parsed.matrix2,
      orders |-> [i \in Range(N) |-> i],
      pivots |-> [i \in Range(N) |-> PivotOf(parsed.matrix[i])],
      ok |-> 0]

\* lines 154-158 with <= in place of < on line 157
isKernelRowOffByOne(row, M) ==
  Len(row) > 0 /\ \A j \in 1 .. Len(row) : ~(row[j] <= M)

\* lines 154-159: a non-empty row all of whose columns are bookkeeping columns
isKernelRow(row, M) ==
  Len(row) > 0 /\ \A j \in 1 .. Len(row) : ~(row[j] < M)

\* lines 149-163: the null-space vectors, in row order
kernelVectors(matrix, matrix2, N, M) ==
  For(0, N,
      [RSolutions |-> EmptyRows(N), RSolutions2 |-> EmptyRows(N),
       kernelDim |-> 0],
      LAMBDA s, i :
        IF isKernelRow(matrix[i], M)
        THEN [RSolutions |->
                [s.RSolutions EXCEPT ![s.kernelDim] =
                   [j \in 1 .. Len(matrix[i]) |-> matrix[i][j] - M]],
              RSolutions2 |->
                [s.RSolutions2 EXCEPT ![s.kernelDim] = matrix2[i]],
              kernelDim |-> s.kernelDim + 1]
        ELSE s)

\* lines 176-184 without the test of lines 180-183
appendAlways(list, x) == Append(list, x)

\* lines 176-184 with insert(0, x) in place of append(x)
appendNewFront(list, x) ==
  IF \E k \in 1 .. Len(list) : list[k] = x THEN list ELSE <<x>> \o list

\* lines 176-184 (and 192-200, 505-513): append x unless already contained
appendNew(list, x) ==
  IF \E k \in 1 .. Len(list) : list[k] = x THEN list ELSE Append(list, x)

\* lines 176-184 without the test ok3: every entry is appended
appendAllUnchecked(list, xs) == list \o xs

appendAllNew(list, xs) ==
  For(0, Len(xs), list, LAMBDA l, j : appendNew(l, xs[j + 1]))

\* lines 186-191: smallest |coefficient| of a vector, starting from init
minAbs(vals, init) ==
  For(0, Len(vals), init,
      LAMBDA m, j : IF RLt(RAbs(vals[j + 1]), m) THEN RAbs(vals[j + 1]) ELSE m)

\* lines 171-175: no coefficient has the opposite sign of the first
sameSign(vals) ==
  \A j \in 1 .. Len(vals) : ~RLt(RMul(vals[j], vals[1]), RZero)

\* lines 169-204: matched, and the same-sign vectors as normalized moieties
kernelMoieties(kv, N) ==
  For(0, kv.kernelDim,
      [matched |-> <<>>, intmatched |-> <<>>, NSolutions |-> EmptyRows(N),
       NSolutions2 |-> EmptyRows(N), i2 |-> 0, kernelDim |-> kv.kernelDim],
      LAMBDA s, i :
        LET cols == kv.RSolutions[i]
            vals == kv.RSolutions2[i]
            s1 == [s EXCEPT !.matched = appendAllNew(@, cols)]
            min == minAbs(vals, RInt(MAX))
        IN IF sameSign(vals) /\ Len(cols) > 0
           THEN [s1 EXCEPT
                   !.NSolutions[s.i2] = cols,
                   !.NSolutions2[s.i2] =
                      [j \in 1 .. Len(vals) |-> RDiv(RAbs(vals[j]), min)],
                   !.intmatched = appendAllNew(@, cols),
                   !.i2 = s.i2 + 1]
           ELSE s1)

\* lines 149-211: the tuple kernel returns, from the eliminated rows
kernelReturn(matrix, matrix2, N, M) ==
  LET mo == kernelMoieties(kernelVectors(matrix, matrix2, N, M), N)
  IN [kernelDim |-> mo.kernelDim, matched |-> mo.matched,
      intKernelDim |-> mo.i2, intmatched |-> mo.intmatched,
      NSolutions |-> mo.NSolutions, NSolutions2 |-> mo.NSolutions2]

-----------------------------------------------------------------------------
(* fill(stoichiometricMatrixAsList, matched_size, matched, N): lines       *)
(* 214-269.  The entries of the input matrix are integers, and so are the  *)
(* interaction weights.                                                    *)

\* lines 238-242: the last position i < dim with matched_[i] = j1, else dim
prendoOf(j1, dim, matched_) ==
  For(0, dim, dim, LAMBDA pr, i : IF j1 = matched_[i + 1] THEN i ELSE pr)

\* lines 227-249: per matched_ position, the reactions and coefficients of
\* its species
fillParse(S, dim, matched_, N) ==
  For(0, Len(S),
      [matrix |-> EmptyRows(dim), matrix2 |-> EmptyRows(dim),
       i1 |-> 0, j1 |-> 0],
      LAMBDA s, t :
        LET val == S[t + 1]
            prendo == prendoOf(s.j1, dim, matched_)
            s1 == IF val # 0 /\ prendo < dim
                  THEN [s EXCEPT !.matrix[prendo] = Append(@, s.i1),
                                 !.matrix2[prendo] = Append(@, val)]
                  ELSE s
        IN IF s.j1 + 1 = N
           THEN [s1 EXCEPT !.j1 = 0, !.i1 = s.i1 + 1]
           ELSE [s1 EXCEPT !.j1 = s.j1 + 1])

\* lines 256-260: the products of the entries of rows i and j in the
\* reaction of entry po of row i, added to interactions
fillAccumulate(interactions, rows, i, j, po) ==
  For(0, Len(rows.matrix[j]), interactions,
      LAMBDA acc, pu :
        IF rows.matrix[i][po + 1] = rows.matrix[j][pu + 1]
        THEN acc + rows.matrix2[i][po + 1] * rows.matrix2[j][pu + 1]
        ELSE acc)

\* lines 261-268, executed once per entry po of row i: the field of i, or
\* the edge between i and j
fillStore(g, i, j) ==
  IF j = i
  THEN [g EXCEPT !.fields[i] = g.interactions]
  ELSE IF GtMIN(RInt(AbsInt(g.interactions)))
       THEN [g EXCEPT !.J[i] = Append(@, j),
                      !.J2[i] = Append(@, g.interactions),
                      !.J[j] = Append(@, i),
                      !.J2[j] = Append(@, g.interactions)]
       ELSE g

\* lines 253-268: the pair (i, j)
fillPair(g, rows, i, j) ==
  For(0, Len(rows.matrix[i]), [g EXCEPT !.interactions = 0],
      LAMBDA h, po :
        fillStore([h EXCEPT !.interactions =
                      fillAccumulate(h.interactions, rows, i, j, po)], i, j))

\* lines 225-269: J, J2 and fields
fill(S, matched_size, matched_, N) ==
  LET rows == fillParse(S, matched_size, matched_, N)
      g == For(0, matched_size,
               [J |-> EmptyRows(N), J2 |-> EmptyRows(N),
                fields |-> [i \in Range(N) |-> 0], interactions |-> 0],
               LAMBDA g1, i :
                 For(i, matched_size, g1,
                     LAMBDA g2, j : fillPair(g2, rows, i, j)))
  IN [J |-> g.J, J2 |-> g.J2, fields |-> g.fields]

-----------------------------------------------------------------------------
(* LinearDependence(vectors, intkerneldim, NSolutions, NSolutions2,        *)
(*                  matched, N): lines 272-366                             *)

\* lines 300-303 (and 487-492): the positions of matched, ordered by species
speciesOrder(matched_) ==
  qsort(Len(matched_), 0, [i \in Range(Len(matched_)) |-> i],
        [i \in Range(Len(matched_)) |-> matched_[i + 1]])

\* lines 304-307: the candidate as a sparse row over the species
candidateRow(vectors, matched_) ==
  LET orders2 == speciesOrder(matched_)
  IN For(0, Len(matched_), [cols |-> <<>>, vals |-> <<>>],
         LAMBDA s, i :
           IF GtMIN(RInt(vectors[orders2[i]]))
           THEN [cols |-> Append(s.cols, matched_[orders2[i] + 1]),
                 vals |-> Append(s.vals, RInt(vectors[orders2[i]]))]
           ELSE s)

\* lines 290-312: the K rows, the moieties found so far and the candidate
linDepEnter(vectors, intkerneldim, NSolutions_, NSolutions2_, matched_) ==
  LET K == intkerneldim + 1
      cand == candidateRow(vectors, matched_)
      matrix == [i \in Range(K) |->
                   IF i < K - 1 THEN NSolutions_[i] ELSE cand.cols]
  IN [matrix |-> matrix,
      matrix2 |-> [i \in Range(K) |->
                     IF i < K - 1 THEN NSolutions2_[i] ELSE cand.vals],
      orders |-> [i \in Range(K) |-> i],
      pivots |-> [i \in Range(K) |-> PivotOf(matrix[i])],
      ok |-> 0]

\* lines 338-362: for j in range(K - 2), rows of N columns
linDepSweep(st, K, N) == eliminateSweep(st, K - 2, N)

\* lines 315-362: the pass of "while ok == 0" that is made (the return on
\* line 366 is inside the loop)
linDepPass(st, K, N) ==
  LET sorted == qsort(K, 0, st.orders, st.pivots)
      swapped == pivotSwaps(K, sorted, st.pivots, st.matrix2, RInt(MAX))
  IN linDepSweep([st EXCEPT !.orders = swapped], K, N)

\* lines 364-366: yes = int(K == K1)
linDepYes(st, K) ==
  IF K = Cardinality({i \in Range(K) : Len(st.matrix[i]) > 0}) THEN 1 ELSE 0

-----------------------------------------------------------------------------
(* MonteCarlo(matched, J, J2, fields, intmatched, intkerneldim,            *)
(*            NSolutions, NSolutions2, kerneldim, N, initT, coolrate,      *)
(*            maxIter): lines 369-527                                      *)

\* lines 412-417: the energy of the seed; range(len([J[i]])) is range(1)
energyOfSeed(num, g, dim) ==
  For(0, dim, 0,
      LAMBDA H, i :
        LET H1 == H + g.fields[i] * num[i] * num[i]
        IN IF Len(g.J[i]) > 0
           THEN For(0, 1, H1,
                    LAMBDA H2, j :
                      H2 + g.J2[i][j + 1] * num[i] * num[g.J[i][j + 1]])
           ELSE H1)

\* lines 465-470: the energy after a restart
energyOf(num, g, dim) ==
  For(0, dim, 0,
      LAMBDA H, i :
        LET H1 == H + g.fields[i] * num[i] * num[i]
        IN For(0, Len(g.J[i]), H1,
               LAMBDA H2, j :
                 H2 + g.J2[i][j + 1] * num[i] * num[g.J[i][j + 1]]))

\* lines 434-437
deltaOf(num, g, en, p) ==
  2 * p * For(0, Len(g.J[en]), g.fields[en] * num[en],
              LAMBDA d, i : d + g.J2[en][i + 1] * num[g.J[en][i + 1]])
    + g.fields[en]

\* lines 402-423: the locals of MonteCarlo when it enters "while True",
\* for the seed num
mcEnter(num, g, dim, initT_) ==
  [num |-> num,
   numtot |-> For(0, dim, 0, LAMBDA t, i : t + num[i]),
   H |-> energyOfSeed(num, g, dim),
   stop |-> 0, count |-> 0, T1 |-> initT_, howmany |-> 0,
   yes |-> NoneVal, intkerneldim |-> NoneVal]

\* lines 439-442 without line 441: numtot is not updated
mcAcceptNoTotal(m, en, p, delta) ==
  [m EXCEPT !.num[en] = @ + p, !.H = @ + delta]

\* lines 439-442: the move is applied
mcAccept(m, en, p, delta) ==
  [m EXCEPT !.num[en] = @ + p, !.numtot = @ + p, !.H = @ + delta]

\* lines 444-450: count += 1, and the cooling every dim steps
mcCool(m, dim, coolrate_) ==
  LET count == m.count + 1
      T1 == RSub(m.T1, coolrate_)
  IN IF count % dim = 0
     THEN [m EXCEPT !.count = count,
                    !.T1 = IF ~RLt(RZero, T1) THEN coolrate_ ELSE T1]
     ELSE [m EXCEPT !.count = count]

\* lines 452-471: after int(dim / coolrate) steps, restart from the single
\* spin en
mcRestart(m, g, dim, initT_, en) ==
  LET num == [i \in Range(dim) |-> IF i = en THEN 1 ELSE 0]
  IN [m EXCEPT !.T1 = initT_, !.count = 0, !.num = num, !.numtot = 1,
               !.H = energyOf(num, g, dim), !.howmany = @ + 1]

\* lines 473-474
mcStop(m, maxIter_) ==
  IF (LtMIN(RInt(m.H)) /\ m.numtot > 0) \/ m.howmany = 10 * maxIter_
  THEN [m EXCEPT !.stop = 1] ELSE m

\* line 479 with > in place of >=
mcExhaustedLate(m, maxIter_) == m.howmany > 10 * maxIter_

\* line 479: the search did not stop on a solution
mcExhausted(m, maxIter_) == ~(m.howmany < 10 * maxIter_)

\* lines 487-496 without the call of qsort of line 492: the species are
\* appended in the order of matched
mcAppendUnsorted(NSolutions_, NSolutions2_, intkerneldim, num, matched_) ==
  For(0, Len(matched_),
      [NSolutions |-> NSolutions_, NSolutions2 |-> NSolutions2_],
      LAMBDA s, i :
        IF num[i] > 0
        THEN [NSolutions |->
                [s.NSolutions EXCEPT ![intkerneldim] =
                   Append(@, matched_[i + 1])],
              NSolutions2 |->
                [s.NSolutions2 EXCEPT ![intkerneldim] =
                   Append(@, RInt(num[i]))]]
        ELSE s)

\* lines 487-496: NSolutions and NSolutions2 with the candidate num
\* appended as moiety number intkerneldim
mcAppend(NSolutions_, NSolutions2_, intkerneldim, num, matched_) ==
  LET orders2 == speciesOrder(matched_)
  IN For(0, Len(matched_),
         [NSolutions |-> NSolutions_, NSolutions2 |-> NSolutions2_],
         LAMBDA s, i :
           IF num[orders2[i]] > 0
           THEN [NSolutions |->
                   [s.NSolutions EXCEPT ![intkerneldim] =
                      Append(@, matched_[orders2[i] + 1])],
                 NSolutions2 |->
                   [s.NSolutions2 EXCEPT ![intkerneldim] =
                      Append(@, RInt(num[orders2[i]]))]]
           ELSE s)

\* lines 503-515: the smallest coefficient of a moiety, starting from 1000
mcMin(vals) ==
  For(0, Len(vals), RInt(1000),
      LAMBDA m, i : IF RLt(vals[i + 1], m) THEN vals[i + 1] ELSE m)

\* lines 516-517: the last moiety divided by its smallest coefficient
mcNormalize(NSolutions2_, intkerneldim) ==
  LET vals == NSolutions2_[intkerneldim - 1]
      min == mcMin(vals)
  IN [NSolutions2_ EXCEPT ![intkerneldim - 1] =
        [i \in 1 .. Len(vals) |-> RDiv(vals[i], min)]]

-----------------------------------------------------------------------------
(* Relaxation(stoichiometricMatrixAsList, intmatched, M, N, relaxationmax, *)
(*            relaxation_step): lines 530-772.  M is the number of          *)
(* reactions and N the number of species, as in the call of the driver.    *)
(* The field err of the locals names the exception that was raised, ""     *)
(* while none was.                                                         *)

\* lines 550-577: the locals of Relaxation when it enters "while ok == 0";
\* the rows are read as fill reads them, for the species of intmatched
relaxEnter(S, intmatched_, M, N) ==
  LET K == Len(intmatched_)
      rows == fillParse(S, K, intmatched_, N)
      matrix == [i \in Range(N) |-> IF i < K THEN rows.matrix[i] ELSE <<>>]
  IN [matrix |-> matrix,
      matrix2 |-> [i \in Range(N) |->
                     IF i < K
                     THEN [j \in 1 .. Len(rows.matrix2[i]) |->
                             RInt(rows.matrix2[i][j])]
                     ELSE <<>>],
      orders |-> [i \in Range(N) |-> i],
      pivots |-> [i \in Range(N) |-> PivotOf(matrix[i])],
      ok |-> 0, k2 |-> NoneVal, err |-> "", yes |-> NoneVal]

\* lines 583-590: min1, which takes the ratio without abs
relaxMin1(row2) ==
  IF Len(row2) > 1
  THEN For(0, Len(row2), RInt(MAX),
           LAMBDA m, i :
             LET r == RDiv(row2[1], row2[i + 1])
             IN IF RLt(RAbs(r), m) THEN r ELSE m)
  ELSE RInt(MAX)

\* lines 591-597: min2 over the row of orders[j + 1], with i running over
\* the length of the row of orders[j]; err is set when i leaves the row
relaxMin2(row2, len) ==
  IF Len(row2) > 1
  THEN For(0, len, [min |-> RInt(MAX), err |-> ""],
           LAMBDA m, i :
             IF m.err # "" THEN m
             ELSE IF i >= Len(row2) THEN [m EXCEPT !.err = "IndexError"]
             ELSE IF RLt(RAbs(RDiv(row2[1], row2[i + 1])), m.min)
                  THEN [m EXCEPT !.min = RDiv(RAbs(row2[1]), row2[i + 1])]
                  ELSE m)
  ELSE [min |-> RInt(MAX), err |-> ""]

\* lines 580-601: for j in range(K), the rows of orders[j] and
\* orders[j + 1] are swapped when they have the same pivot and min2 > min1;
\* orders has N entries
relaxSwaps(st, K, N) ==
  For(0, K, st,
      LAMBDA s, j :
        IF s.err # "" THEN s
        ELSE IF j + 1 >= N THEN [s EXCEPT !.err = "IndexError"]
        ELSE IF /\ s.pivots[s.orders[j + 1]] = s.pivots[s.orders[j]]
                /\ s.pivots[s.orders[j]] # MAX
             THEN LET min1 == relaxMin1(s.matrix2[s.orders[j]])
                      m2 == relaxMin2(s.matrix2[s.orders[j + 1]],
                                      Len(s.matrix[s.orders[j]]))
                  IN IF m2.err # "" THEN [s EXCEPT !.err = m2.err]
                     ELSE IF RLt(min1, m2.min)
                          THEN [s EXCEPT !.k2 = s.orders[j + 1],
                                         !.orders[j + 1] = s.orders[j],
                                         !.orders[j] = s.orders[j + 1]]
                          ELSE s
             ELSE s)

\* lines 602-629: for j in range(K), rows of M columns: the second of two
\* rows with the same pivot is replaced as in kernel; k2 stays bound
relaxSweep(st, K, M) ==
  For(0, K, [st EXCEPT !.ok = 1],
      LAMBDA s, j :
        IF /\ s.pivots[s.orders[j + 1]] = s.pivots[s.orders[j]]
           /\ s.pivots[s.orders[j]] # MAX
        THEN LET k1 == s.orders[j + 1]
                 k2 == s.orders[j]
                 row == sparseRow(rowCombine(s.matrix, s.matrix2, k1, k2, M),
                                  M)
             IN [s EXCEPT !.matrix[k1] = row.cols,
                          !.matrix2[k1] = row.vals,
                          !.ok = 0,
                          !.k2 = k2,
                          !.pivots[k1] = PivotOf(row.cols)]
        ELSE s)

\* lines 579-629: the one iteration of "while ok == 0" up to the sweep
relaxPass(st, K, M, N) ==
  LET sorted == qsort(K, 0, st.orders, st.pivots)
      swapped == relaxSwaps([st EXCEPT !.orders = sorted], K, N)
  IN IF swapped.err # "" THEN swapped ELSE relaxSweep(swapped, K, M)

\* lines 631-635: every row is divided by its first coefficient
relaxNormalize(st, K) ==
  [st EXCEPT !.matrix2 =
     [i \in DOMAIN st.matrix2 |->
        IF i < K /\ Len(st.matrix[i]) > 0
        THEN [j \in 1 .. Len(st.matrix2[i]) |->
                RDiv(st.matrix2[i][j], st.matrix2[i][1])]
        ELSE st.matrix2[i]]]

\* lines 637-657: the back substitution reaches line 650, where
\* rigak[matrix[k]] has a list as its index
relaxBackRaises(st, K) ==
  \E k1 \in Range(K - 1) :
    LET k == st.orders[k1]
    IN /\ Len(st.matrix[k]) > 1
       /\ \E i \in 2 .. Len(st.matrix[k]), j1 \in (k1 + 1) .. (K - 1) :
            LET j == st.orders[j1]
            IN /\ Len(st.matrix[j]) > 0
               /\ st.matrix[j][1] = st.matrix[k][i]

\* lines 662-664: indip[matrix[i]] has a list as its index
relaxIndipRaises(st, K) == \E i \in Range(K) : Len(st.matrix[i]) > 0

\* lines 631-664: what is left of the rows
relaxSolve(st, K) ==
  LET normal == relaxNormalize(st, K)
  IN IF relaxBackRaises(normal, K) \/ relaxIndipRaises(normal, K)
     THEN [normal EXCEPT !.err = "TypeError"]
     ELSE normal

\* lines 688-711: the entries of the species that are not in intmatched;
\* i1 stays 0, and line 705 appends to the row k2 of the elimination
relaxAus(S, intmatched_, N, N1, k2) ==
  For(0, Len(S),
      [matrix_aus |-> EmptyRows(N1), matrix_aus2 |-> EmptyRows(N1),
       k1 |-> 0, j1 |-> 0, err |-> ""],
      LAMBDA s, t :
        IF s.err # "" THEN s
        ELSE
          LET val == S[t + 1]
              prendo == 1 - Cardinality({i \in 1 .. Len(intmatched_) :
                                           intmatched_[i] = s.j1})
              s1 == IF val # 0 /\ prendo = 1
                    THEN IF s.k1 \notin Range(N1)
                         THEN [s EXCEPT !.err = "IndexError"]
                         ELSE IF k2 = NoneVal
                         THEN [s EXCEPT !.matrix_aus[s.k1] = Append(@, 0),
                                        !.err = "UnboundLocalError"]
                         ELSE IF k2 \notin Range(N1)
                         THEN [s EXCEPT !.matrix_aus[s.k1] = Append(@, 0),
                                        !.err = "IndexError"]
                         ELSE [s EXCEPT !.matrix_aus[s.k1] = Append(@, 0),
                                        !.matrix_aus2[k2] = Append(@, val)]
                    ELSE s
          IN IF s1.err # "" THEN s1
             ELSE IF s.j1 + 1 = N
                  THEN [s1 EXCEPT !.j1 = 0, !.k1 = 0]
                  ELSE [s1 EXCEPT !.j1 = s.j1 + 1, !.k1 = s.k1 + prendo])

\* lines 666-686 and 713-725.  Line 664 is the only one that gives indip an
\* entry below K and it raises whenever it runs, so M1 = M, matrixAus[i] is
\* [i] and matrixAus2[i] is [1]: row j of matrixb gets the reactions i of
\* matrix_aus[j], with the sums of their coefficients.
relaxB(aus, M1, N1) ==
  For(0, M1, [matrixb |-> EmptyRows(N1), matrixb2 |-> EmptyRows(N1),
              err |-> ""],
      LAMBDA b, i :
        For(0, N1, b,
            LAMBDA c, j :
              IF c.err # "" \/ Len(aus.matrix_aus[j]) = 0 THEN c
              ELSE IF \E jb \in 1 .. Len(aus.matrix_aus[j]) :
                        /\ aus.matrix_aus[j][jb] = i
                        /\ jb > Len(aus.matrix_aus2[j])
                   THEN [c EXCEPT !.err = "IndexError"]
                   ELSE LET prod ==
                              For(0, Len(aus.matrix_aus[j]), 0,
                                  LAMBDA q, jb :
                                    IF aus.matrix_aus[j][jb + 1] = i
                                    THEN q + aus.matrix_aus2[j][jb + 1]
                                    ELSE q)
                        IN IF GtMIN(RInt(AbsInt(prod)))
                           THEN [c EXCEPT !.matrixb[j] = Append(@, i),
                                          !.matrixb2[j] = Append(@, prod)]
                           ELSE c))

\* lines 727-772: the first iteration of the loop of Motzkin's method.
\* With a constraint, line 739 raises: var[matrixb] has a list as its
\* index.  Without one cmin stays 1000, ok is 1 and yes = 1 is returned.
relaxMotzkin(st, b, N1) ==
  IF \E j \in Range(N1) : Len(b.matrixb[j]) > 0
  THEN [st EXCEPT !.err = "TypeError"]
  ELSE [st EXCEPT !.ok = 1, !.yes = 1]

-----------------------------------------------------------------------------
(* Reduce(intKernelDim, kernelDim, NSolutions, NSolutions2, N): lines      *)
(* 775-826                                                                 *)

\* lines 788-796: the locals of Reduce when it enters "while True"
reduceEnter(K, NSolutions_) ==
  [orders |-> [i \in Range(K) |-> i],
   pivots |-> [i \in Range(K) |-> -Len(NSolutions_[i])],
   ok |-> 0, K |-> K, return |-> "caller"]

\* lines 805-814 without the test of lines 812-813: ok1 stays 1
reduceSubtractUnchecked(NSolutions_, NSolutions2_, k1, k2, N) ==
  LET c1 == For(0, Len(NSolutions_[k1]), [l \in Range(N) |-> RZero],
                LAMBDA c, l :
                  [c EXCEPT ![NSolutions_[k1][l + 1]] = NSolutions2_[k1][l + 1]])
  IN For(0, Len(NSolutions_[k2]), [colonna |-> c1, ok1 |-> 1],
         LAMBDA s, l :
           LET at == NSolutions_[k2][l + 1]
               v == RSub(s.colonna[at], NSolutions2_[k2][l + 1])
           IN [colonna |-> [s.colonna EXCEPT ![at] = v], ok1 |-> s.ok1])

\* lines 805-814: colonna = moiety k1 - moiety k2, and ok1 = 0 when an
\* entry of k2 leaves colonna below -MIN
reduceSubtract(NSolutions_, NSolutions2_, k1, k2, N) ==
  LET c1 == For(0, Len(NSolutions_[k1]), [l \in Range(N) |-> RZero],
                LAMBDA c, l :
                  [c EXCEPT ![NSolutions_[k1][l + 1]] = NSolutions2_[k1][l + 1]])
  IN For(0, Len(NSolutions_[k2]), [colonna |-> c1, ok1 |-> 1],
         LAMBDA s, l :
           LET at == NSolutions_[k2][l + 1]
               v == RSub(s.colonna[at], NSolutions2_[k2][l + 1])
           IN [colonna |-> [s.colonna EXCEPT ![at] = v],
               ok1 |-> IF LtNegMIN(v) THEN 0 ELSE s.ok1])

\* lines 803-823 without the test of line 815: colonna is stored whatever
\* ok1 is
reducePairUntested(s, i, j, N) ==
  LET k1 == s.orders[i]
      k2 == s.orders[j]
      sub == reduceSubtract(s.NSolutions, s.NSolutions2, k1, k2, N)
      row == sparseRow(sub.colonna, N)
  IN [s EXCEPT !.ok = 0,
               !.NSolutions[k1] = row.cols,
               !.NSolutions2[k1] = row.vals,
               !.pivots[k1] = -Len(row.cols)]

\* lines 803-823: the pair (orders[i], orders[j])
reducePair(s, i, j, N) ==
  LET k1 == s.orders[i]
      k2 == s.orders[j]
      sub == reduceSubtract(s.NSolutions, s.NSolutions2, k1, k2, N)
      row == sparseRow(sub.colonna, N)
  IN IF sub.ok1 = 1
     THEN [s EXCEPT !.ok = 0,
                    !.NSolutions[k1] = row.cols,
                    !.NSolutions2[k1] = row.vals,
                    !.pivots[k1] = -Len(row.cols)]
     ELSE s

\* lines 799-823: one iteration of "while True"; s holds orders, pivots, ok,
\* NSolutions and NSolutions2
reducePass(s, K, N) ==
  For(0, K - 2,
      [s EXCEPT !.orders = qsort(K, 0, s.orders, s.pivots), !.ok = 1],
      LAMBDA s1, i :
        For(i + 1, K, s1, LAMBDA s2, j : reducePair(s2, i, j, N)))

-----------------------------------------------------------------------------
(* Calls of kernel on every integer matrix within the bounds *)

\* the stoichiometric coefficients of the input matrices
Coeffs == {-1, 0, 1, 2}

\* Scenario B of the specification: A -> B and C -> D
ScenarioB == [N |-> 4, M |-> 2, S |-> <<-1, 1, 0, 0, 0, 0, -1, 1>>]

\* Scenario A of the specification: A -> B
ScenarioA == [N |-> 2, M |-> 1, S |-> <<-1, 1>>]

NoCall ==
  /\ kernelDim = 0
  /\ matched = <<>>
  /\ intKernelDim = 0
  /\ intmatched = <<>>
  /\ NSolutions = <<>>
  /\ NSolutions2 = <<>>
  /\ kn = Idle
  /\ graph = Idle
  /\ mc = Idle
  /\ rd = Idle
  /\ qs = Idle
  /\ hist = Idle
  /\ drv = Idle
  /\ ld = Idle
  /\ rx = Idle

InitKernel ==
  /\ pc = "kernel"
  /\ \E N \in 1 .. MaxEntries, M \in 1 .. MaxEntries :
       /\ numberOfMetabolites = N
       /\ numberOfReactions = M
       /\ \/ /\ N * M <= MaxEntries
             /\ stoichiometricMatrixAsList \in [1 .. (N * M) -> Coeffs]
          \/ /\ N = ScenarioB.N
             /\ M = ScenarioB.M
             /\ stoichiometricMatrixAsList = ScenarioB.S
  /\ NoCall

\* kernel(S, N, M) is called: lines 65-94
KernelCall ==
  /\ pc = "kernel"
  /\ kn' = kernelEnter(stoichiometricMatrixAsList, numberOfMetabolites,
                       numberOfReactions)
  /\ pc' = "kernel_loop"
  /\ UNCHANGED <<stoichiometricMatrixAsList, numberOfMetabolites,
                 numberOfReactions, kernelDim, matched, intKernelDim,
                 intmatched, NSolutions, NSolutions2, graph, mc, rd, qs, hist, drv, ld,
                 rx>>

\* one iteration of "while ok == 0": lines 96-147
KernelPass ==
  /\ pc = "kernel_loop"
  /\ kn.ok = 0
  /\ kn' = kernelPass(kn, numberOfMetabolites, numberOfReactions)
  /\ UNCHANGED <<pc, stoichiometricMatrixAsList, numberOfMetabolites,
                 numberOfReactions, kernelDim, matched, intKernelDim,
                 intmatched, NSolutions, NSolutions2, graph, mc, rd, qs, hist, drv, ld,
                 rx>>

\* the loop is left and kernel returns: lines 149-211
KernelReturn ==
  /\ pc = "kernel_loop"
  /\ kn.ok # 0
  /\ LET r == kernelReturn(kn.matrix, kn.matrix2, numberOfMetabolites,
                           numberOfReactions)
     IN /\ kernelDim' = r.kernelDim
        /\ matched' = r.matched
        /\ intKernelDim' = r.intKernelDim
        /\ intmatched' = r.intmatched
        /\ NSolutions' = r.NSolutions
        /\ NSolutions2' = r.NSolutions2
  /\ kn' = Idle
  /\ pc' = "kernel_done"
  /\ UNCHANGED <<stoichiometricMatrixAsList, numberOfMetabolites,
                 numberOfReactions, graph, mc, rd, qs, hist, drv, ld, rx>>

NextKernel == KernelCall \/ KernelPass \/ KernelReturn

SpecKernel == InitKernel /\ [][NextKernel]_vars

-----------------------------------------------------------------------------
(* The driver: kernel, fill, then MonteCarlo while intKernelDim differs    *)
(* from kernelDim, then Reduce (test_detect_cl, lines 89-135).  The        *)
(* comparison "timer == max" on line 127 is with the builtin max and never *)
(* true, so Relaxation is not called.                                      *)

coolrate == Rat(1, CoolDen)

\* the one-reaction networks of the driver
DriverCoeffs == {-1, 0, 1}

\* the network A + B -> C + D
TwoToTwo == [N |-> 4, M |-> 1, S |-> <<-1, -1, 1, 1>>]

\* the network A -> 2 C + D beside a species B that does not react
OneToThree == [N |-> 4, M |-> 1, S |-> <<-1, 0, 2, 1>>]

InitDriver ==
  /\ pc = "kernel"
  /\ numberOfReactions = 1
  /\ \/ \E N \in 2 .. MaxSpecies :
          /\ numberOfMetabolites = N
          /\ stoichiometricMatrixAsList \in [1 .. N -> DriverCoeffs]
     \/ \E sc \in {TwoToTwo, OneToThree} :
          /\ numberOfMetabolites = sc.N
          /\ stoichiometricMatrixAsList = sc.S
  /\ NoCall

\* J, J2, fields = fill(...): line 105
FillCall ==
  /\ pc = "kernel_done"
  /\ graph' = fill(stoichiometricMatrixAsList, Len(matched), matched,
                   numberOfMetabolites)
  /\ pc' = "driver_test"
  /\ UNCHANGED <<stoichiometricMatrixAsList, numberOfMetabolites,
                 numberOfReactions, kernelDim, matched, intKernelDim,
                 intmatched, NSolutions, NSolutions2, kn, mc, rd, qs, hist,
                 drv, ld, rx>>

\* lines 123-124 without the test of line 123
driverFinishNever(int_kernel_dim, kernel_dim, finish) == finish

\* lines 123-124
driverFinish(int_kernel_dim, kernel_dim, finish) ==
  IF int_kernel_dim = kernel_dim THEN 1 ELSE finish

\* if int_kernel_dim != kernel_dim: lines 107-110
DriverTest ==
  /\ pc = "driver_test"
  /\ IF intKernelDim # kernelDim
     THEN /\ drv' = [timer |-> 0, counter |-> 1, finish |-> 0]
          /\ pc' = "driver_loop"
     ELSE /\ drv' = drv
          /\ pc' = "done"
  /\ UNCHANGED <<stoichiometricMatrixAsList, numberOfMetabolites,
                 numberOfReactions, kernelDim, matched, intKernelDim,
                 intmatched, NSolutions, NSolutions2, kn, graph, mc, rd, qs,
                 hist, ld, rx>>

\* MonteCarlo is called (line 114) and draws its seed: lines 401-423
MCCall ==
  /\ pc = "driver_loop"
  /\ drv.finish = 0
  /\ \E num \in [Range(Len(matched)) -> {0, 1}] :
       /\ \A i \in Range(Len(matched)) :
            Len(graph.J[i]) = 0 => num[i] = 0
       /\ mc' = [mcEnter(num, graph, Len(matched), RInt(initT))
                   EXCEPT !.intkerneldim = intKernelDim]
  /\ hist' = [intkerneldim |-> intKernelDim, intmatched |-> intmatched,
              kerneldim |-> kernelDim, matched |-> matched,
              NSolutions |-> NSolutions, NSolutions2 |-> NSolutions2]
  /\ pc' = "mc_loop"
  /\ UNCHANGED <<stoichiometricMatrixAsList, numberOfMetabolites,
                 numberOfReactions, kernelDim, matched, intKernelDim,
                 intmatched, NSolutions, NSolutions2, kn, graph, rd, qs, drv, ld,
                 rx>>

\* lines 426-437: the spin en and the move p that are drawn, and delta
mcMove(m, g, en1, en2, coin) ==
  LET en == IF Len(g.J[en1]) = 0 THEN en2 ELSE en1
      p == IF m.num[en] > 0 /\ coin THEN -1 ELSE 1
  IN [en |-> en, p |-> p, delta |-> deltaOf(m.num, g, en, p)]

\* the outcomes of a draw of int(random.uniform(0, 1) * dim) that is used,
\* and one value for a draw that is not
Draws(used, dim) == IF used THEN Range(dim) ELSE {0}

\* the outcomes of the draw of line 439: it succeeds when delta = 0
\* (e ** 0 = 1), has both outcomes when delta > 0 (0 < e ** delta < 1) and
\* is not made when delta < 0
Accepts(delta) ==
  IF delta < 0 THEN {FALSE} ELSE IF delta = 0 THEN {TRUE} ELSE BOOLEAN

\* line 452 with the restart one step later
mcRestartDueLate(m, dim) == m.count = dim * CoolDen + 1

\* line 452: the restart is due
mcRestartDue(m, dim) == m.count = dim * CoolDen

\* an iteration of "while True" up to the test of line 452, and to its end
\* (lines 473-477) when no restart is due: lines 425-452; mv is the move
\* that is drawn, m1 the locals after line 442, m2 after line 450
MCStep ==
  /\ pc = "mc_loop"
  /\ \E en1 \in Range(Len(matched)), coin \in BOOLEAN :
       \E en2 \in Draws(Len(graph.J[en1]) = 0, Len(matched)) :
         \E mv \in {mcMove(mc, graph, en1, en2, coin)} :
           /\ mc.num[mv.en] = 0 => ~coin
           /\ \E accept \in Accepts(mv.delta) :
                \E m1 \in {IF mv.delta < 0 \/ accept
                           THEN mcAccept(mc, mv.en, mv.p, mv.delta)
                           ELSE mc} :
                  \E m2 \in {mcCool(m1, Len(matched), coolrate)} :
                    IF mcRestartDue(m2, Len(matched))
                    THEN /\ mc' = m2
                         /\ pc' = "mc_restart"
                    ELSE /\ mc' = mcStop(m2, MaxIter)
                         /\ pc' = IF mc'.stop # 0 THEN "mc_exit"
                                  ELSE "mc_loop"
  /\ UNCHANGED <<stoichiometricMatrixAsList, numberOfMetabolites,
                 numberOfReactions, kernelDim, matched, intKernelDim,
                 intmatched, NSolutions, NSolutions2, kn, graph, rd, qs, hist,
                 drv, ld, rx>>

\* the end of an iteration in which the restart is due: lines 452-477; r1
\* and r2 are the draws of lines 458 and 462
MCRestart ==
  /\ pc = "mc_restart"
  /\ \E r1 \in Range(Len(matched)) :
       \E r2 \in Draws(Len(graph.J[r1]) > 0, Len(matched)) :
         \E m3 \in {mcRestart(mc, graph, Len(matched), RInt(initT),
                              IF Len(graph.J[r1]) > 0 THEN r2 ELSE r1)} :
           mc' = mcStop(m3, MaxIter)
  /\ pc' = IF mc'.stop # 0 THEN "mc_exit" ELSE "mc_loop"
  /\ UNCHANGED <<stoichiometricMatrixAsList, numberOfMetabolites,
                 numberOfReactions, kernelDim, matched, intKernelDim,
                 intmatched, NSolutions, NSolutions2, kn, graph, rd, qs, hist,
                 drv, ld, rx>>

\* the restarts are used up, yes = 0: lines 479, 524-527
MCExhausted ==
  /\ pc = "mc_exit"
  /\ mcExhausted(mc, MaxIter)
  /\ mc' = [mc EXCEPT !.yes = 0]
  /\ pc' = "mc_returned"
  /\ UNCHANGED <<stoichiometricMatrixAsList, numberOfMetabolites,
                 numberOfReactions, kernelDim, matched, intKernelDim,
                 intmatched, NSolutions, NSolutions2, kn, graph, rd, qs, hist,
                 drv, ld, rx>>

\* LinearDependence is called: lines 479-482 and 290-312
MCCheck ==
  /\ pc = "mc_exit"
  /\ ~mcExhausted(mc, MaxIter)
  /\ Len(intmatched) > 0
  /\ ld' = linDepEnter(mc.num, mc.intkerneldim, NSolutions, NSolutions2,
                       matched)
  /\ pc' = "lindep"
  /\ UNCHANGED <<stoichiometricMatrixAsList, numberOfMetabolites,
                 numberOfReactions, kernelDim, matched, intKernelDim,
                 intmatched, NSolutions, NSolutions2, kn, graph, mc, rd, qs,
                 hist, drv, rx>>

\* LinearDependence makes its pass and returns yes: lines 314-366, 481
LinDepPass ==
  /\ pc = "lindep"
  /\ ld' = linDepPass(ld, mc.intkerneldim + 1, numberOfMetabolites)
  /\ mc' = [mc EXCEPT !.yes = linDepYes(ld', mc.intkerneldim + 1)]
  /\ pc' = "mc_checked"
  /\ UNCHANGED <<stoichiometricMatrixAsList, numberOfMetabolites,
                 numberOfReactions, kernelDim, matched, intKernelDim,
                 intmatched, NSolutions, NSolutions2, kn, graph, rd, qs, hist,
                 drv, rx>>

\* line 483 with the assert left out
assertNever(yes) == FALSE

\* line 483: "assert yes" raises AssertionError
assertFails(yes) == yes = 0

\* yes is not 1: "assert yes" fails, line 483; without it the call would
\* return with yes = 0, lines 521-527
MCAssertFails ==
  /\ pc = "mc_checked"
  /\ mc.yes # 1
  /\ pc' = IF assertFails(mc.yes) THEN "AssertionError" ELSE "mc_returned"
  /\ UNCHANGED <<stoichiometricMatrixAsList, numberOfMetabolites,
                 numberOfReactions, kernelDim, matched, intKernelDim,
                 intmatched, NSolutions, NSolutions2, kn, graph, mc, rd, qs,
                 hist, drv, ld, rx>>

\* yes = 1, by line 481 or by line 485: num is appended as a moiety and
\* Reduce is called, lines 486-502 and 788-796.  The call of line 499
\* changes nothing and its result is not used.
MCFound ==
  /\ \/ pc = "mc_checked" /\ mc.yes = 1
     \/ pc = "mc_exit" /\ ~mcExhausted(mc, MaxIter) /\ Len(intmatched) = 0
  /\ LET a == mcAppend(NSolutions, NSolutions2, mc.intkerneldim, mc.num,
                       matched)
     IN /\ NSolutions' = a.NSolutions
        /\ NSolutions2' = a.NSolutions2
        /\ rd' = [reduceEnter(mc.intkerneldim + 1, a.NSolutions)
                    EXCEPT !.K = mc.intkerneldim + 1, !.return = "mc_reduced"]
  /\ mc' = [mc EXCEPT !.yes = 1, !.intkerneldim = @ + 1]
  /\ pc' = "reduce_loop"
  /\ UNCHANGED <<stoichiometricMatrixAsList, numberOfMetabolites,
                 numberOfReactions, kernelDim, matched, intKernelDim,
                 intmatched, kn, graph, qs, hist, drv, ld, rx>>

\* one iteration of "while True" of Reduce, which returns when the pass
\* replaced nothing: lines 798-826
ReducePass ==
  /\ pc = "reduce_loop"
  /\ LET s == reducePass([orders |-> rd.orders, pivots |-> rd.pivots,
                          ok |-> rd.ok, NSolutions |-> NSolutions,
                          NSolutions2 |-> NSolutions2],
                         rd.K, numberOfMetabolites)
     IN /\ NSolutions' = s.NSolutions
        /\ NSolutions2' = s.NSolutions2
        /\ rd' = [rd EXCEPT !.orders = s.orders, !.pivots = s.pivots,
                            !.ok = s.ok]
        /\ pc' = IF s.ok # 0 THEN rd.return ELSE "reduce_loop"
  /\ UNCHANGED <<stoichiometricMatrixAsList, numberOfMetabolites,
                 numberOfReactions, kernelDim, matched, intKernelDim,
                 intmatched, kn, graph, mc, qs, hist, drv, ld, rx>>

\* lines 503-527: intmatched takes the species of the last moiety, which
\* is divided by its smallest coefficient, and MonteCarlo returns
MCReturn ==
  /\ pc = "mc_reduced"
  /\ intmatched' = appendAllNew(intmatched, NSolutions[mc.intkerneldim - 1])
  /\ NSolutions2' = mcNormalize(NSolutions2, mc.intkerneldim)
  /\ pc' = "mc_returned"
  /\ UNCHANGED <<stoichiometricMatrixAsList, numberOfMetabolites,
                 numberOfReactions, kernelDim, matched, intKernelDim,
                 NSolutions, kn, graph, mc, rd, qs, hist, drv, ld, rx>>

\* lines 122 and 126: counter += 1 and timer += 1.  The driver prints
\* counter and compares timer with the builtin max only, so the model keeps
\* the two up to MaxCalls + 1, which stands for every larger value.
countUp(x) == IF x <= MaxCalls THEN x + 1 ELSE x

\* line 127: timer == max, where max is the builtin function, no number
timerAtMax(timer) == FALSE

\* the driver takes the results and tests them: lines 114-132; the test of
\* line 127 fails and Relaxation is not called
DriverAfterCall ==
  /\ pc = "mc_returned"
  /\ intKernelDim' = mc.intkerneldim
  /\ drv' = [counter |-> countUp(drv.counter),
             finish |-> driverFinish(mc.intkerneldim, kernelDim, drv.finish),
             timer |-> IF mc.yes = 0 THEN countUp(drv.timer) ELSE drv.timer]
  /\ ~timerAtMax(drv'.timer)
  /\ pc' = "driver_loop"
  /\ UNCHANGED <<stoichiometricMatrixAsList, numberOfMetabolites,
                 numberOfReactions, kernelDim, matched, intmatched,
                 NSolutions, NSolutions2, kn, graph, mc, rd, qs, hist, ld,
                 rx>>

\* the loop is left and Reduce is called: lines 111, 133-135 and 788-796
DriverReduce ==
  /\ pc = "driver_loop"
  /\ drv.finish # 0
  /\ rd' = [reduceEnter(intKernelDim, NSolutions)
              EXCEPT !.K = intKernelDim, !.return = "done"]
  /\ pc' = "reduce_loop"
  /\ UNCHANGED <<stoichiometricMatrixAsList, numberOfMetabolites,
                 numberOfReactions, kernelDim, matched, intKernelDim,
                 intmatched, NSolutions, NSolutions2, kn, graph, mc, qs, hist,
                 drv, ld, rx>>

Next ==
  \/ KernelCall \/ KernelPass \/ KernelReturn
  \/ FillCall \/ DriverTest
  \/ MCCall \/ MCStep \/ MCRestart \/ MCExhausted
  \/ MCCheck \/ LinDepPass \/ MCAssertFails \/ MCFound
  \/ ReducePass \/ MCReturn
  \/ DriverAfterCall \/ DriverReduce

Spec == InitDriver /\ [][Next]_vars

-----------------------------------------------------------------------------
(* kernel and then fill, as the driver calls them (lines 89-105), on the   *)
(* inputs of the kernel specification, with one reaction or more           *)

NextFill == NextKernel \/ FillCall

SpecFill == InitKernel /\ [][NextFill]_vars

-----------------------------------------------------------------------------
(* Two calls of Reduce in succession, on every list of two or three        *)
(* linearly independent moieties over three species with weights up to     *)
(* MaxWeight                                                               *)

\* rank of the moieties, as dense vectors over the N species
MoietyRank(W, K, N) ==
  DenseRank([i \in Range(K) |-> [l \in Range(N) |-> RInt(W[i][l])]], K, N)

InitReduce ==
  /\ pc = "reduce_call"
  /\ stoichiometricMatrixAsList = <<>>
  /\ numberOfReactions = 0
  /\ numberOfMetabolites = 3
  /\ matched = <<>>
  /\ intmatched = <<>>
  /\ \E K \in 2 .. 3 :
       \E W \in [Range(K) -> [Range(3) -> 0 .. MaxWeight]] :
         /\ MoietyRank(W, K, 3) = K
         /\ intKernelDim = K
         /\ kernelDim = K
         /\ NSolutions =
              [i \in Range(3) |->
                 IF i < K
                 THEN sparseRow([l \in Range(3) |-> RInt(W[i][l])], 3).cols
                 ELSE <<>>]
         /\ NSolutions2 =
              [i \in Range(3) |->
                 IF i < K
                 THEN sparseRow([l \in Range(3) |-> RInt(W[i][l])], 3).vals
                 ELSE <<>>]
  /\ kn = Idle
  /\ graph = Idle
  /\ mc = Idle
  /\ rd = Idle
  /\ qs = Idle
  /\ hist = [calls |-> 0, NSolutions |-> <<>>, NSolutions2 |-> <<>>]
  /\ drv = Idle
  /\ ld = Idle
  /\ rx = Idle

\* Reduce is called on the moieties as the last call left them: lines
\* 788-796
ReduceCall ==
  /\ pc = "reduce_call"
  /\ hist.calls < 2
  /\ hist' = [calls |-> hist.calls + 1, NSolutions |-> NSolutions,
              NSolutions2 |-> NSolutions2]
  /\ rd' = [reduceEnter(intKernelDim, NSolutions)
              EXCEPT !.K = intKernelDim, !.return = "reduce_call"]
  /\ pc' = "reduce_loop"
  /\ UNCHANGED <<stoichiometricMatrixAsList, numberOfMetabolites,
                 numberOfReactions, kernelDim, matched, intKernelDim,
                 intmatched, NSolutions, NSolutions2, kn, graph, mc, qs, drv,
                 ld, rx>>

NextReduce == ReduceCall \/ ReducePass

SpecReduce == InitReduce /\ [][NextReduce]_vars

-----------------------------------------------------------------------------
(* A call of Relaxation(S, intmatched, M, N) on every matrix of N species  *)
(* and M reactions up to MaxRelax each, with every duplicate-free list of  *)
(* species as intmatched                                                   *)

\* the lists over 0 .. N - 1 without duplicates
SpeciesLists(N) ==
  UNION {{q \in [1 .. n -> Range(N)] :
            \A a, b \in 1 .. n : a # b => q[a] # q[b]} : n \in 0 .. N}

InitRelax ==
  /\ pc = "relax"
  /\ \E N \in 1 .. MaxRelax, M \in 1 .. MaxRelax :
       /\ numberOfMetabolites = N
       /\ numberOfReactions = M
       /\ stoichiometricMatrixAsList \in [1 .. (N * M) -> DriverCoeffs]
       /\ intmatched \in SpeciesLists(N)
  /\ kernelDim = 0
  /\ matched = <<>>
  /\ intKernelDim = 0
  /\ NSolutions = <<>>
  /\ NSolutions2 = <<>>
  /\ kn = Idle
  /\ graph = Idle
  /\ mc = Idle
  /\ rd = Idle
  /\ qs = Idle
  /\ hist = Idle
  /\ drv = Idle
  /\ ld = Idle
  /\ rx = Idle

RelaxUnchanged ==
  UNCHANGED <<stoichiometricMatrixAsList, numberOfMetabolites,
              numberOfReactions, kernelDim, matched, intKernelDim,
              intmatched, NSolutions, NSolutions2, kn, graph, mc, rd, qs,
              hist, drv, ld>>

\* Relaxation is called: lines 550-577
RelaxCall ==
  /\ pc = "relax"
  /\ rx' = relaxEnter(stoichiometricMatrixAsList, intmatched,
                      numberOfReactions, numberOfMetabolites)
  /\ pc' = "relax_loop"
  /\ RelaxUnchanged

\* the iteration of "while ok == 0" up to the sweep: lines 579-629
RelaxPass ==
  /\ pc = "relax_loop"
  /\ rx' = relaxPass(rx, Len(intmatched), numberOfReactions,
                     numberOfMetabolites)
  /\ pc' = IF rx'.err # "" THEN rx'.err ELSE "relax_swept"
  /\ RelaxUnchanged

\* normalisation, back substitution and indip: lines 631-664
RelaxSolve ==
  /\ pc = "relax_swept"
  /\ rx' = relaxSolve(rx, Len(intmatched))
  /\ pc' = IF rx'.err # "" THEN rx'.err ELSE "relax_solved"
  /\ RelaxUnchanged

\* the inequality system and Motzkin's method: lines 666-772
RelaxSystem ==
  /\ pc = "relax_solved"
  /\ LET N1 == numberOfMetabolites - Len(intmatched)
         aus == relaxAus(stoichiometricMatrixAsList, intmatched,
                         numberOfMetabolites, N1, rx.k2)
         b == relaxB(aus, numberOfReactions, N1)
     IN rx' = IF aus.err # "" THEN [rx EXCEPT !.err = aus.err]
              ELSE IF b.err # "" THEN [rx EXCEPT !.err = b.err]
              ELSE relaxMotzkin(rx, b, N1)
  /\ pc' = IF rx'.err # "" THEN rx'.err ELSE "relax_returned"
  /\ RelaxUnchanged

NextRelax == RelaxCall \/ RelaxPass \/ RelaxSolve \/ RelaxSystem

SpecRelax == InitRelax /\ [][NextRelax]_vars

-----------------------------------------------------------------------------
(* Properties of kernel *)

\* entry (reaction r, metabolite i) of the flat matrix
Entry(r, i) == stoichiometricMatrixAsList[r * numberOfMetabolites + i + 1]

MatrixRank ==
  DenseRank([r \in Range(numberOfReactions) |->
               [i \in Range(numberOfMetabolites) |-> RInt(Entry(r, i))]],
            numberOfReactions, numberOfMetabolites)

\* C1: rank-nullity; kernel returns kernelDim = N - rank(matrix).
C1_RankNullity ==
  pc = "kernel_done" => kernelDim = numberOfMetabolites - MatrixRank

C1_Witness ==
  /\ pc = "kernel_done"
  /\ numberOfMetabolites = 3
  /\ numberOfReactions = 2
  /\ \A t \in DOMAIN stoichiometricMatrixAsList :
       stoichiometricMatrixAsList[t] # 0
  /\ MatrixRank = 2
  /\ kernelDim = 1

\* sum over the species of moiety i of coefficient * matrix[r][species]
MoietyDot(i, r) ==
  For(0, Len(NSolutions[i]), RZero,
      LAMBDA d, j :
        RAdd(d, RMul(NSolutions2[i][j + 1], RInt(Entry(r, NSolutions[i][j + 1])))))

\* C2: zero-dot; every moiety vector kernel returns in (NSolutions,
\* NSolutions2) has dot product 0 (within MIN) with every reaction.
C2_ZeroDot ==
  pc = "kernel_done" =>
    \A i \in DOMAIN NSolutions : \A r \in Range(numberOfReactions) :
      ~GtMIN(RAbs(MoietyDot(i, r)))

C2_Witness ==
  /\ pc = "kernel_done"
  /\ numberOfReactions = 2
  /\ MatrixRank = 2
  /\ intKernelDim = 1
  /\ \E j \in DOMAIN NSolutions2[0] : NSolutions2[0][j] = RInt(2)

\* C4: Scenario A; kernel([-1, 1], 2, 1) returns kernelDim = 1,
\* intKernelDim = 1 and exactly one moiety, species [0, 1] with
\* coefficients [1, 1].
C4_ScenarioA ==
  ( /\ pc = "kernel_done"
    /\ numberOfMetabolites = ScenarioA.N
    /\ numberOfReactions = ScenarioA.M
    /\ stoichiometricMatrixAsList = ScenarioA.S )
  => /\ kernelDim = 1
     /\ intKernelDim = 1
     /\ NSolutions = (0 :> <<0, 1>> @@ 1 :> <<>>)
     /\ NSolutions2 = (0 :> <<RInt(1), RInt(1)>> @@ 1 :> <<>>)

C4_Witness ==
  /\ pc = "kernel_done"
  /\ stoichiometricMatrixAsList = <<-1, 1>>
  /\ numberOfMetabolites = 2
  /\ numberOfReactions = 1
  /\ intmatched = <<0, 1>>

\* C5: Scenario B; for A -> B and C -> D kernel returns kernelDim = 2 and
\* intKernelDim = 2 with the two moieties {0, 1} and {2, 3}, each with
\* coefficients {1, 1}.
C5_ScenarioB ==
  ( /\ pc = "kernel_done"
    /\ numberOfMetabolites = ScenarioB.N
    /\ numberOfReactions = ScenarioB.M
    /\ stoichiometricMatrixAsList = ScenarioB.S )
  => /\ kernelDim = 2
     /\ intKernelDim = 2
     /\ {NSolutions[i] : i \in Range(intKernelDim)} = {<<0, 1>>, <<2, 3>>}
     /\ \A i \in Range(intKernelDim) : NSolutions2[i] = <<RInt(1), RInt(1)>>
     /\ \A i \in DOMAIN NSolutions : i >= intKernelDim => NSolutions[i] = <<>>

C5_Witness ==
  /\ pc = "kernel_done"
  /\ stoichiometricMatrixAsList = <<-1, 1, 0, 0, 0, 0, -1, 1>>
  /\ numberOfMetabolites = 4
  /\ numberOfReactions = 2
  /\ Len(matched) = 4

\* rank of the matrix with the unit row of species i added
RankWithUnitRow(i) ==
  DenseRank([r \in Range(numberOfReactions + 1) |->
               [l \in Range(numberOfMetabolites) |->
                  IF r < numberOfReactions THEN RInt(Entry(r, l))
                  ELSE IF l = i THEN RInt(1) ELSE RZero]],
            numberOfReactions + 1, numberOfMetabolites)

\* the species that are not zero in every vector of the left null space:
\* those whose unit row is not a combination of the reactions
NullSpaceSpecies ==
  {i \in Range(numberOfMetabolites) : RankWithUnitRow(i) = MatrixRank + 1}

MatchedExact ==
  /\ \A j, k \in 1 .. Len(matched) : matched[j] = matched[k] => j = k
  /\ {matched[j] : j \in 1 .. Len(matched)} = NullSpaceSpecies

\* C11 as stated: matched is sorted ascending, free of duplicates and holds
\* exactly the species of the null-space vectors.
C11_MatchedSortedExact ==
  pc = "kernel_done" =>
    /\ \A j \in 1 .. Len(matched) - 1 : matched[j] < matched[j + 1]
    /\ MatchedExact

\* C11: matched is free of duplicates and holds exactly the species that
\* occur in a null-space vector (in the order in which kernel meets them).
C11_MatchedExactUnsorted ==
  pc = "kernel_done" => MatchedExact

\* three or more species matched, not in ascending order
C11_Witness ==
  /\ pc = "kernel_done"
  /\ Len(matched) >= 3
  /\ \E j \in 1 .. Len(matched) - 1 : matched[j] > matched[j + 1]
  /\ numberOfReactions = 2

\* the coefficients of moiety i are positive integers
PositiveIntegers(i) ==
  \A j \in 1 .. Len(NSolutions2[i]) :
    NSolutions2[i][j][2] = 1 /\ NSolutions2[i][j][1] > 0

\* C13: every coefficient of a moiety that kernel returns for an integer
\* matrix is a positive integer.
C13_KernelCoefficientsIntegers ==
  pc = "kernel_done" => \A i \in Range(intKernelDim) : PositiveIntegers(i)

-----------------------------------------------------------------------------
(* Calls of kernel on lists whose length is not N * M *)

InitMalformed ==
  /\ pc = "kernel"
  /\ \E N \in 1 .. MaxMalformed, M \in 1 .. MaxMalformed,
        L \in 0 .. MaxMalformed :
       /\ L # N * M
       /\ numberOfMetabolites = N
       /\ numberOfReactions = M
       /\ stoichiometricMatrixAsList \in [1 .. L -> Coeffs]
  /\ NoCall

SpecMalformed == InitMalformed /\ [][NextKernel]_vars

\* C14: kernel never returns a result for a list whose length is not N * M.
C14_MalformedNeverReturns ==
  Len(stoichiometricMatrixAsList) # numberOfMetabolites * numberOfReactions
    => pc # "kernel_done"

-----------------------------------------------------------------------------
(* Calls of qsort on every index array and key array within the bounds *)

Keys == (0 .. MaxKey) \cup {MAX}

\* orders is a permutation of 0..n-1, as in every caller
IsPermutation(o, n) == \A i, j \in Range(n) : o[i] = o[j] => i = j

InitQsort ==
  /\ pc = "qsort"
  /\ \E n \in 1 .. MaxLen :
       \E o \in [Range(n) -> Range(n)], p \in [Range(n) -> Keys],
          k \in 0 .. n, km \in 0 .. n :
         /\ IsPermutation(o, n)
         /\ km <= k
         /\ qs = [k |-> k, km |-> km, orders0 |-> o, orders |-> o,
                  pivots |-> p]
  /\ stoichiometricMatrixAsList = <<>>
  /\ numberOfMetabolites = 0
  /\ numberOfReactions = 0
  /\ kernelDim = 0
  /\ matched = <<>>
  /\ intKernelDim = 0
  /\ intmatched = <<>>
  /\ NSolutions = <<>>
  /\ NSolutions2 = <<>>
  /\ kn = Idle
  /\ graph = Idle
  /\ mc = Idle
  /\ rd = Idle
  /\ hist = Idle
  /\ drv = Idle
  /\ ld = Idle
  /\ rx = Idle

QsortCall ==
  /\ pc = "qsort"
  /\ qs' = [qs EXCEPT !.orders = qsort(qs.k, qs.km, qs.orders, qs.pivots)]
  /\ pc' = "qsort_done"
  /\ UNCHANGED <<stoichiometricMatrixAsList, numberOfMetabolites,
                 numberOfReactions, kernelDim, matched, intKernelDim,
                 intmatched, NSolutions, NSolutions2, kn, graph, mc, rd, hist, drv, ld,
                 rx>>

NextQsort == QsortCall

SpecQsort == InitQsort /\ [][NextQsort]_vars

-----------------------------------------------------------------------------
(* Properties of qsort *)

\* the window [km, k) of a call
Window == {i \in DOMAIN qs.orders : qs.km <= i /\ i < qs.k}

\* insertion of index x into the key-sorted sequence s, after equal keys
RECURSIVE InsertStable(_, _, _)
InsertStable(s, x, pivots) ==
  IF s = <<>> THEN <<x>>
  ELSE IF pivots[x] < pivots[Head(s)] THEN <<x>> \o s
  ELSE <<Head(s)>> \o InsertStable(Tail(s), x, pivots)

\* stable sort of orders[km..k) by key, as a sequence
StableSorted(k, km, orders, pivots) ==
  For(km, k, <<>>, LAMBDA s, i : InsertStable(s, orders[i], pivots))

WindowSeq(k, km, orders) == For(km, k, <<>>, LAMBDA s, i : Append(s, orders[i]))

\* C9: qsort leaves in orders[km..k) a permutation of its previous content,
\* ascending by pivot key (MAX keys last); entries of orders outside the
\* window are unchanged.
C9_QsortSortsWindow ==
  pc = "qsort_done" =>
    /\ DOMAIN qs.orders = DOMAIN qs.orders0
    /\ \A v \in {qs.orders0[i] : i \in Window} :
         Cardinality({i \in Window : qs.orders[i] = v}) = 1
    /\ \A i \in Window : \E j \in Window : qs.orders[i] = qs.orders0[j]
    /\ \A i, j \in Window :
         i < j => qs.pivots[qs.orders[i]] <= qs.pivots[qs.orders[j]]
    /\ \A i \in DOMAIN qs.orders \ Window : qs.orders[i] = qs.orders0[i]

C9_Witness ==
  /\ pc = "qsort_done"
  /\ qs.k - qs.km = 3
  /\ qs.orders # qs.orders0
  /\ \E i \in Window : qs.pivots[qs.orders0[i]] = MAX
  /\ qs.pivots[qs.orders[qs.km]] # MAX

\* C10 as stated: the order produced by qsort is the order of a stable sort.
C10_QsortEqualsStableSort ==
  pc = "qsort_done" =>
    WindowSeq(qs.k, qs.km, qs.orders)
      = StableSorted(qs.k, qs.km, qs.orders0, qs.pivots)

KeysOf(s, pivots) == [i \in DOMAIN s |-> pivots[s[i]]]

DistinctKeys ==
  \A i, j \in Window :
    qs.pivots[qs.orders0[i]] = qs.pivots[qs.orders0[j]] => i = j

\* C10 amended: the keys in the order produced by qsort are the keys in the
\* order of a stable sort, and the two orders are the same when the keys of
\* the window are pairwise distinct (equal keys may change relative order).
C10_QsortEqualsStableSortUpToTies ==
  pc = "qsort_done" =>
    /\ KeysOf(WindowSeq(qs.k, qs.km, qs.orders), qs.pivots)
         = KeysOf(StableSorted(qs.k, qs.km, qs.orders0, qs.pivots), qs.pivots)
    /\ DistinctKeys =>
         WindowSeq(qs.k, qs.km, qs.orders)
           = StableSorted(qs.k, qs.km, qs.orders0, qs.pivots)

C10_Witness ==
  /\ pc = "qsort_done"
  /\ qs.k - qs.km = 3
  /\ DistinctKeys
  /\ qs.orders # qs.orders0

-----------------------------------------------------------------------------
(* Properties of MonteCarlo and of the driver *)

\* MonteCarlo left its loop in the success state and appended num
MCAppended ==
  /\ \/ pc = "reduce_loop" /\ rd.return = "mc_reduced"
     \/ pc \in {"mc_reduced", "mc_returned"}
  /\ mc.yes = 1

\* the product of reaction r with the vector num over the positions of
\* matched
NumDot(r) ==
  For(0, Len(matched), 0,
      LAMBDA d, i : d + mc.num[i] * Entry(r, matched[i + 1]))

\* C3: the vector num that MonteCarlo appends as a new moiety lies in the
\* left kernel; its product with every reaction is 0.
C3_AppendedInKernel ==
  MCAppended => \A r \in Range(numberOfReactions) : NumDot(r) = 0

\* C6: a call of MonteCarlo returns intkerneldim unchanged or one larger,
\* and intmatched with the entries it had on entry as its prefix.
C6_Monotone ==
  pc = "mc_returned" =>
    /\ mc.intkerneldim \in {hist.intkerneldim, hist.intkerneldim + 1}
    /\ Len(hist.intmatched) <= Len(intmatched)
    /\ SubSeq(intmatched, 1, Len(hist.intmatched)) = hist.intmatched

\* a call that found a moiety with a species new to a non-empty intmatched
C6_Witness ==
  /\ pc = "mc_returned"
  /\ mc.yes = 1
  /\ mc.intkerneldim = hist.intkerneldim + 1
  /\ hist.intmatched # <<>>
  /\ Len(intmatched) > Len(hist.intmatched)

\* C7: intKernelDim <= kernelDim on return from kernel and after every
\* call of MonteCarlo by the driver loop.
C7_IntKernelDimBounded ==
  /\ pc \notin {"kernel", "kernel_loop"} => intKernelDim <= kernelDim
  /\ pc = "mc_returned" => mc.intkerneldim <= kernelDim

\* the second call of MonteCarlo has raised intKernelDim to kernelDim
C7_Witness ==
  /\ pc = "driver_loop"
  /\ drv.counter = 3
  /\ drv.finish = 1
  /\ intKernelDim = kernelDim
  /\ intKernelDim = hist.intkerneldim + 1

\* kernel has returned and no call of MonteCarlo is running
BetweenCalls ==
  pc \in {"kernel_done", "driver_test", "driver_loop", "mc_returned", "done"}

\* the number of moieties when no call is running
MoietyCount == IF pc = "mc_returned" THEN mc.intkerneldim ELSE intKernelDim

\* the smallest coefficient magnitude of moiety i is 1
MinCoefficientOne(i) ==
  /\ \E j \in 1 .. Len(NSolutions2[i]) : RAbs(NSolutions2[i][j]) = RInt(1)
  /\ \A j \in 1 .. Len(NSolutions2[i]) :
       ~RLt(RAbs(NSolutions2[i][j]), RInt(1))

\* C12: after kernel and after every call of MonteCarlo each of the first
\* intKernelDim moieties has smallest coefficient magnitude 1.
C12_Normalized ==
  BetweenCalls => \A i \in Range(MoietyCount) : MinCoefficientOne(i)

\* C15: a call of MonteCarlo that used up its 10 * maxIter restarts returns
\* yes = 0 and leaves intkerneldim, kerneldim, NSolutions, NSolutions2,
\* matched and intmatched as they were on entry.
C15_ExhaustionChangesNothing ==
  (pc = "mc_returned" /\ mc.howmany = 10 * MaxIter) =>
    /\ mc.yes = 0
    /\ mc.intkerneldim = hist.intkerneldim
    /\ kernelDim = hist.kerneldim
    /\ NSolutions = hist.NSolutions
    /\ NSolutions2 = hist.NSolutions2
    /\ matched = hist.matched
    /\ intmatched = hist.intmatched

\* an exhausted call whose last restart left a vector that passes the test
\* of line 473
C15_Witness ==
  /\ pc = "mc_returned"
  /\ mc.howmany = 10 * MaxIter
  /\ mc.H <= 0
  /\ mc.numtot > 0
  /\ hist.intkerneldim >= 1

\* the steps MonteCarlo can still take in "while True": every restart
\* stands for the steps up to it
mcBudget ==
  (10 * MaxIter - mc.howmany) * (Len(matched) * CoolDen + 1)
    + (Len(matched) * CoolDen - mc.count)

\* MonteCarlo is in its loop "while True" (lines 425-477) or has just left it
InSearch == pc \in {"mc_loop", "mc_restart", "mc_exit"}

\* the counters of the search are within their limits; the loop goes on
\* only below them and is left on a solution or with the restarts used up
C17_CountersBounded ==
  InSearch =>
    /\ Len(matched) >= 1
    /\ mc.howmany \in 0 .. 10 * MaxIter
    /\ mc.count \in 0 .. Len(matched) * CoolDen
    /\ pc = "mc_loop" =>
         mc.howmany < 10 * MaxIter /\ mc.count < Len(matched) * CoolDen
    /\ pc = "mc_exit" =>
         \/ mc.H <= 0 /\ mc.numtot > 0
         \/ mc.howmany = 10 * MaxIter

\* every iteration of the loop uses up the budget: a step adds one to
\* count, a restart adds one to howmany
C17_StepUsesBudget ==
  (pc \in {"mc_loop", "mc_restart"}) =>
    /\ pc' \in {"mc_loop", "mc_restart", "mc_exit"}
    /\ mcBudget' < mcBudget
    /\ mcBudget' >= 0

\* C17: every call of MonteCarlo with len(matched) >= 1 leaves its search
\* loop, on a solution or exhausted: the restart counter howmany never
\* exceeds 10 * maxIter, the step counter count never exceeds
\* floor(dim / coolrate), and each iteration uses up one of the finitely
\* many steps these limits allow, whatever is drawn.
C17_SearchTerminates == []C17_CountersBounded /\ [][C17_StepUsesBudget]_vars

\* a search that was left after its last restart, none of which came
\* before count had reached floor(dim / coolrate)
C17_Witness ==
  /\ pc = "mc_exit"
  /\ mc.howmany = 10 * MaxIter
  /\ mc.count = 0
  /\ mc.yes = NoneVal

\* C16: the discovery loop of the driver ends and does not go on with
\* failing searches: with MaxCalls as the configured number of failed
\* calls, the driver never stands at the head of the loop, about to call
\* MonteCarlo again, after more than MaxCalls calls have returned yes = 0.
C16_LoopStopsAfterFailedCalls ==
  (pc = "driver_loop" /\ drv.finish = 0) => drv.timer <= MaxCalls

\* the coefficient of species l in moiety i
MoietyEntry(i, l) ==
  IF \E j \in 1 .. Len(NSolutions[i]) : NSolutions[i][j] = l
  THEN NSolutions2[i][CHOOSE j \in 1 .. Len(NSolutions[i]) :
                        NSolutions[i][j] = l]
  ELSE RZero

\* the coefficient of species l in the candidate num of MonteCarlo
CandidateEntry(l) ==
  IF \E p \in Range(Len(matched)) : matched[p + 1] = l
  THEN RInt(mc.num[CHOOSE p \in Range(Len(matched)) : matched[p + 1] = l])
  ELSE RZero

\* the rank of the first K moieties, with the candidate as one more row or
\* with a row of zeros in its place
RankOfMoieties(K, withCandidate) ==
  DenseRank([i \in Range(K + 1) |->
               [l \in Range(numberOfMetabolites) |->
                  IF i < K THEN MoietyEntry(i, l)
                  ELSE IF withCandidate THEN CandidateEntry(l) ELSE RZero]],
            K + 1, numberOfMetabolites)

\* the candidate is no linear combination of the moieties found so far
CandidateIndependent ==
  RankOfMoieties(mc.intkerneldim, TRUE) > RankOfMoieties(mc.intkerneldim, FALSE)

\* C18: LinearDependence returns 1 exactly when the candidate is linearly
\* independent of the intkerneldim >= 1 moieties found so far.
C18_LinearDependenceExact ==
  pc = "mc_checked" => (mc.yes = 1 <=> CandidateIndependent)

\* C21: in MonteCarlo, after the seed, after every step and after every
\* restart, the tracked H is the energy of the current num computed from
\* scratch: the sum of fields[i] * num[i]^2 and, over every neighbour j of
\* every i, of J2[i][j] * num[i] * num[J[i][j]].
C21_EnergyTracked ==
  InSearch => mc.H = energyOf(mc.num, graph, Len(matched))

\* LinearDependence has returned, or the assert on its result has failed
C22_Rejection ==
  (pc \in {"mc_checked", "AssertionError"}) =>
    /\ hist.intkerneldim >= 1
    /\ Len(hist.intmatched) > 0
    /\ mc.yes \in {0, 1}
    /\ pc = "AssertionError" => mc.yes = 0
    /\ mc.intkerneldim = hist.intkerneldim
    /\ NSolutions = hist.NSolutions
    /\ NSolutions2 = hist.NSolutions2
    /\ intmatched = hist.intmatched

\* a rejected candidate leads to the AssertionError, where the call ends
C22_Abort ==
  /\ (pc = "mc_checked" /\ mc.yes = 0) => pc' = "AssertionError"
  /\ pc = "AssertionError" => pc' = "AssertionError"

\* C22: when the search stops on a candidate while moieties exist and
\* LinearDependence returns 0, MonteCarlo ends in the AssertionError of
\* line 483 and never returns; nothing was appended: NSolutions,
\* NSolutions2, intkerneldim and intmatched are as on entry.
C22_RejectionAborts == []C22_Rejection /\ [][C22_Abort]_vars

\* a call that ended in the AssertionError
C22_Witness ==
  /\ pc = "AssertionError"
  /\ mc.yes = 0
  /\ hist.intkerneldim >= 1

\* C23: after kernel and after every call of MonteCarlo the first
\* intKernelDim moieties are linearly independent.
C23_MoietiesIndependent ==
  BetweenCalls => RankOfMoieties(MoietyCount, FALSE) = MoietyCount

-----------------------------------------------------------------------------
(* Termination of the elimination loop of kernel *)

\* kernel is in its loop "while ok == 0"
InKernelLoop == pc = "kernel_loop"

\* the pivot column of row i, with the number of columns for an empty row
PivotColumn(k, i) ==
  IF k.pivots[i] = MAX THEN numberOfMetabolites + numberOfReactions
  ELSE k.pivots[i]

\* the pivots are the first columns of the rows, below the number of
\* columns, and when the loop is left the non-empty rows have pairwise
\* distinct pivot columns
C25_PivotsDistinctAtExit ==
  InKernelLoop =>
    /\ \A i \in Range(numberOfMetabolites) :
         /\ kn.pivots[i] = IF Len(kn.matrix[i]) > 0 THEN kn.matrix[i][1]
                           ELSE MAX
         /\ PivotColumn(kn, i) \in 0 .. (numberOfMetabolites + numberOfReactions)
    /\ kn.ok # 0 =>
         \A i, j \in Range(numberOfMetabolites) :
           (i # j /\ kn.pivots[i] # MAX) => kn.pivots[i] # kn.pivots[j]

\* a pass lowers no pivot, raises the pivot of every row it replaces, and
\* goes on to another pass only after it has replaced a row
C25_PassRaisesPivots ==
  (InKernelLoop /\ InKernelLoop') =>
    /\ \A i \in Range(numberOfMetabolites) :
         /\ PivotColumn(kn', i) >= PivotColumn(kn, i)
         /\ kn'.matrix[i] # kn.matrix[i] =>
              PivotColumn(kn', i) > PivotColumn(kn, i)
    /\ kn'.ok = 0 =>
         \E i \in Range(numberOfMetabolites) :
           PivotColumn(kn', i) > PivotColumn(kn, i)

\* C25: the elimination loop of kernel terminates: every merge raises the
\* pivot column of the row it replaces (or empties the row), the pivot
\* columns are bounded, so a pass without a merge is reached; the
\* non-empty rows then have pairwise distinct pivot columns.
C25_EliminationTerminates ==
  []C25_PivotsDistinctAtExit /\ [][C25_PassRaisesPivots]_vars

\* the loop is left with a row that was merged: its pivot is a bookkeeping
\* column and it has several entries
C25_Witness ==
  /\ InKernelLoop
  /\ kn.ok # 0
  /\ \E i \in Range(numberOfMetabolites) :
       kn.pivots[i] >= numberOfReactions /\ Len(kn.matrix[i]) >= 2

\* no entry of num is negative and numtot is the sum of num
C27_NumNonNegative ==
  InSearch =>
    /\ \A i \in Range(Len(matched)) : mc.num[i] >= 0
    /\ mc.numtot = For(0, Len(matched), 0, LAMBDA t, i : t + mc.num[i])

\* a step changes at most one entry of num, by one, and lowers only an
\* entry that is above 0
C27_DecrementOnlyPositive ==
  pc = "mc_loop" =>
    \A i \in Range(Len(matched)) :
      /\ mc'.num[i] - mc.num[i] \in {-1, 0, 1}
      /\ mc'.num[i] < mc.num[i] => mc.num[i] > 0

\* C27: in the annealing loop every num[i] is >= 0 and numtot is the sum
\* of num; a decrement is applied only to an entry that is > 0.
C27_NumInvariant == []C27_NumNonNegative /\ [][C27_DecrementOnlyPositive]_vars

\* after a restart, which leaves one entry of num at 1, a step has lowered
\* that entry to 0
C27_Witness ==
  /\ pc = "mc_loop"
  /\ mc.howmany >= 1
  /\ mc.count > 0
  /\ mc.numtot = 0
  /\ \A i \in Range(Len(matched)) : mc.num[i] = 0

\* the species that occur in the first K moieties
SpeciesOfMoieties(K) ==
  UNION {{NSolutions[i][j] : j \in 1 .. Len(NSolutions[i])} : i \in Range(K)}

\* the entries of a list
EntriesOf(list) == {list[j] : j \in 1 .. Len(list)}

\* C28: after kernel and after every call of MonteCarlo, intmatched has no
\* duplicate entries, holds exactly the species of the first intKernelDim
\* moieties (also after Reduce has rewritten moieties) and is a subset of
\* matched.
C28_IntmatchedExact ==
  BetweenCalls =>
    /\ \A j, k \in 1 .. Len(intmatched) :
         intmatched[j] = intmatched[k] => j = k
    /\ EntriesOf(intmatched) = SpeciesOfMoieties(MoietyCount)
    /\ EntriesOf(intmatched) \subseteq EntriesOf(matched)

\* a call of MonteCarlo has returned a moiety and Reduce has rewritten an
\* earlier moiety
C28_Witness ==
  /\ pc = "mc_returned"
  /\ mc.yes = 1
  /\ Len(hist.intmatched) > 0
  /\ \E i \in Range(hist.intkerneldim) : NSolutions[i] # hist.NSolutions[i]

-----------------------------------------------------------------------------
(* Properties of fill *)

\* the weight of the pair of matched positions i and j: the sum over the
\* reactions of the product of the entries of their species
PairWeight(i, j) ==
  For(0, numberOfReactions, 0,
      LAMBDA w, r : w + Entry(r, matched[i + 1]) * Entry(r, matched[j + 1]))

\* the places of J[i] that name j
EdgePlaces(i, j) == {k \in 1 .. Len(graph.J[i]) : graph.J[i][k] = j}

\* C19: fill builds the interaction graph exactly: for matched positions
\* i # j, J[i] names j at most once, and does so exactly when the weight of
\* the pair is not 0, with that weight in J2; fields[i] is the weight of
\* the pair (i, i).
C19_FillExact ==
  pc = "driver_test" =>
    \A i \in Range(Len(matched)) :
      /\ graph.fields[i] = PairWeight(i, i)
      /\ \A j \in Range(Len(matched)) \ {i} :
           /\ Cardinality(EdgePlaces(i, j)) <= 1
           /\ (EdgePlaces(i, j) # {}) <=> (PairWeight(i, j) # 0)
           /\ \A k \in EdgePlaces(i, j) : graph.J2[i][k] = PairWeight(i, j)

-----------------------------------------------------------------------------
(* Properties of Relaxation *)

\* C24: Relaxation, called with a stoichiometric matrix and intmatched,
\* returns a flag and never ends in an error.
C24_RelaxationNoError ==
  pc \notin {"TypeError", "IndexError", "UnboundLocalError"}

-----------------------------------------------------------------------------
(* Properties of Reduce *)

\* C8: a second call of Reduce on the result of the first changes nothing.
C8_ReduceIdempotent ==
  (pc = "reduce_call" /\ hist.calls = 2) =>
    /\ NSolutions = hist.NSolutions
    /\ NSolutions2 = hist.NSolutions2

\* moiety a minus moiety b, aligned by species, has no negative coefficient
NonNegativeDifference(a, b) ==
  \A l \in Range(numberOfMetabolites) :
    ~LtNegMIN(RSub(MoietyEntry(a, l), MoietyEntry(b, l)))

\* C20: when Reduce returns, no two distinct moieties a and b among the
\* first intKernelDim are left such that a - b has no negative coefficient;
\* also for intKernelDim = 2.
C20_ReduceFixedPoint ==
  (pc = "reduce_call" /\ hist.calls >= 1) =>
    \A a, b \in Range(intKernelDim) :
      a # b => ~NonNegativeDifference(a, b)

\* the coefficient of species l in the moiety with species cols and
\* coefficients vals
CoefficientOf(cols, vals, l) ==
  IF \E j \in 1 .. Len(cols) : cols[j] = l
  THEN vals[CHOOSE j \in 1 .. Len(cols) : cols[j] = l]
  ELSE RZero

\* Reduce is running, or is about to be called or has returned
AtReduce == pc \in {"reduce_call", "reduce_loop"}

\* no moiety is emptied and every coefficient stays above MIN
C26_MoietiesPositive ==
  AtReduce =>
    \A i \in Range(intKernelDim) :
      /\ Len(NSolutions[i]) > 0
      /\ Len(NSolutions2[i]) = Len(NSolutions[i])
      /\ \A j \in 1 .. Len(NSolutions2[i]) : GtMIN(NSolutions2[i][j])

\* a pass that replaces a moiety raises no coefficient and lowers one; a
\* pass that replaces none changes nothing and Reduce returns
C26_PassLowersWeight ==
  pc = "reduce_loop" =>
    IF rd'.ok = 0
    THEN /\ pc' = "reduce_loop"
         /\ \A i \in Range(intKernelDim), l \in Range(numberOfMetabolites) :
              ~RLt(CoefficientOf(NSolutions[i], NSolutions2[i], l),
                   CoefficientOf(NSolutions'[i], NSolutions2'[i], l))
         /\ \E i \in Range(intKernelDim), l \in Range(numberOfMetabolites) :
              RLt(CoefficientOf(NSolutions'[i], NSolutions2'[i], l),
                  CoefficientOf(NSolutions[i], NSolutions2[i], l))
    ELSE /\ pc' = rd.return
         /\ NSolutions' = NSolutions
         /\ NSolutions2' = NSolutions2

\* C26: Reduce terminates on linearly independent moieties with positive
\* coefficients: every pass that replaces a moiety lowers a coefficient and
\* raises none, and the coefficients stay positive, so a pass that
\* replaces nothing is reached; no moiety is emptied.
C26_ReduceTerminates ==
  []C26_MoietiesPositive /\ [][C26_PassLowersWeight]_vars

\* Reduce has returned after it replaced a moiety
C26_Witness ==
  /\ pc = "reduce_call"
  /\ hist.calls = 1
  /\ NSolutions # hist.NSolutions

\* every coefficient that is stored while Reduce runs, and when it has
\* returned, is above MIN
C29_CoefficientsAboveMIN ==
  pc \in {"reduce_loop", "mc_reduced", "done"} =>
    \A i \in DOMAIN NSolutions2 :
      /\ Len(NSolutions2[i]) = Len(NSolutions[i])
      /\ \A k \in 1 .. Len(NSolutions2[i]) : GtMIN(NSolutions2[i][k])

\* a pass of Reduce leaves the numbers of moieties and of conservation laws
\* as they are
C29_DimensionsKept ==
  pc = "reduce_loop" =>
    /\ rd'.K = rd.K
    /\ kernelDim' = kernelDim
    /\ intKernelDim' = intKernelDim
    /\ mc' = mc

\* C29: Reduce never writes a negative or near-zero coefficient: given
\* moieties with coefficients > MIN, every coefficient of NSolutions2 after
\* Reduce is > MIN, and intKernelDim and kernelDim are returned unchanged.
C29_ReduceKeepsPositive ==
  []C29_CoefficientsAboveMIN /\ [][C29_DimensionsKept]_vars

\* Reduce, called by MonteCarlo, has returned after it replaced a moiety
\* by a difference that dropped a species
C29_Witness ==
  /\ pc = "mc_reduced"
  /\ \E i \in Range(mc.intkerneldim - 1) :
       Len(NSolutions[i]) < Len(hist.NSolutions[i])

\* the list is strictly ascending
StrictlyAscending(list) ==
  \A j \in 1 .. Len(list) - 1 : list[j] < list[j + 1]

\* C30: after kernel, after every successful call of MonteCarlo and after
\* every call of Reduce, each NSolutions[i] is strictly ascending and as
\* long as NSolutions2[i]; the first intKernelDim moieties are non-empty and
\* all later ones are empty.
C30_MoietyListWellFormed ==
  (BetweenCalls \/ pc = "mc_reduced") =>
    LET K == IF pc \in {"mc_returned", "mc_reduced"} THEN mc.intkerneldim
             ELSE intKernelDim
    IN \A i \in DOMAIN NSolutions :
         /\ StrictlyAscending(NSolutions[i])
         /\ Len(NSolutions[i]) = Len(NSolutions2[i])
         /\ i < K => Len(NSolutions[i]) > 0
         /\ i >= K => Len(NSolutions[i]) = 0

\* a call of MonteCarlo has returned a moiety of two or more species,
\* found over a list matched that is not ascending
C30_Witness ==
  /\ pc = "mc_returned"
  /\ mc.yes = 1
  /\ mc.intkerneldim = hist.intkerneldim + 1
  /\ Len(NSolutions[mc.intkerneldim - 1]) >= 2
  /\ ~StrictlyAscending(matched)

=============================================================================
